---- MODULE Spec2Model ----
(***************************************************************************)
(* Model of pw (src/src/main.rs): a command-line credential manager that   *)
(* keeps secrets in the platform keyring and a side index of the           *)
(* registered (key, tag) pairs in ./keys.json.                             *)
(*                                                                         *)
(* Strings are sequences of one-character strings, so that format! is a    *)
(* real concatenation.  Option<String> is a sequence of length 0 (None) or *)
(* 1 (Some).  A HashSet is a set; its iteration order, which the hasher    *)
(* randomises per process, is a nondeterministic choice.                   *)
(***************************************************************************)
EXTENDS Naturals, Sequences, FiniteSets

VARIABLES file, store, last, procs

vars == <<file, store, last, procs>>

\* ------------------------------------------------------------------ bounds
\* The keys and passwords the invocations are given: a plain key and one
\* that contains the ':' of the identifier format; two secrets, so that
\* overwriting one shows.  The tags are the first NumTags of AllTags.
NumTags == 1

Keys == {<<"a">>, <<"a", ":", "b">>}
AllTags == << <<"b">>, <<"p">>, <<"q">> >>
Tags == {AllTags[i] : i \in 1..NumTags}
Passwords == {"secret1", "secret2"}

None == <<>>
Some(t) == <<t>>
OptTags == {None} \cup {Some(t) : t \in Tags}

\* outcomes of the external calls, chosen by the environment
ExtOutcomes == {"ok", "fail"}
SaveOutcomes == {"ok", "create_err", "write_err"}

\* ------------------------------------------------------------ index file
\* serde_json writes the set as an array of [key, tag-or-null] pairs; a JSON
\* pair is modelled as a record, null and a string being different tokens.
\* ToJson writing null for every tag.
ToJson_null_tag(e) ==
  [k |-> e[1], null |-> TRUE, s |-> <<>>]

ToJson(e) ==
  [k |-> e[1], null |-> (e[2] = None), s |-> IF e[2] = None THEN <<>> ELSE e[2][1]]

FromJson(j) ==
  <<j.k, IF j.null THEN None ELSE Some(j.s)>>

NoFile == [kind |-> "absent", keys |-> {}]
Partial == [kind |-> "partial", keys |-> {}]
JsonFile(keys) == [kind |-> "json", keys |-> {ToJson(e) : e \in keys}]

\* KeyStorage::load: the empty index when the file does not exist, an error
\* when it exists and does not parse.
load(f) ==
  IF f.kind = "absent" THEN [ok |-> TRUE, keys |-> {}]
  ELSE IF f.kind = "json" THEN [ok |-> TRUE, keys |-> {FromJson(j) : j \in f.keys}]
  ELSE [ok |-> FALSE, keys |-> {}]

\* save adding the given set to what the file holds instead of replacing it.
save_merge(f, keys, sv) ==
  IF sv = "ok" THEN [ok |-> TRUE, file |-> JsonFile(keys \cup load(f).keys)]
  ELSE IF sv = "create_err" THEN [ok |-> FALSE, file |-> f]
  ELSE [ok |-> FALSE, file |-> Partial]

\* KeyStorage::save: File::create truncates the file, then the set is
\* written; sv is what the file system does.
save(f, keys, sv) ==
  IF sv = "ok" THEN [ok |-> TRUE, file |-> JsonFile(keys)]
  ELSE IF sv = "create_err" THEN [ok |-> FALSE, file |-> f]
  ELSE [ok |-> FALSE, file |-> Partial]

\* -------------------------------------------------------- external store
\* The keyring, addressed by flat identifiers: a function from the
\* identifiers that hold a secret to the secret.
Call(op, id, ok) == [op |-> op, id |-> id, ok |-> ok]

\* set_password keeping the secret an identifier already has.
set_password_keep(st, id, pw, ext) ==
  IF ext = "ok"
  THEN [ok |-> TRUE,
        store |-> [i \in DOMAIN st \cup {id} |-> IF i \in DOMAIN st THEN st[i] ELSE pw]]
  ELSE [ok |-> FALSE, store |-> st]

set_password(st, id, pw, ext) ==
  IF ext = "ok"
  THEN [ok |-> TRUE,
        store |-> [i \in DOMAIN st \cup {id} |-> IF i = id THEN pw ELSE st[i]]]
  ELSE [ok |-> FALSE, store |-> st]

get_password(st, id, ext) ==
  ext = "ok" /\ id \in DOMAIN st

delete_credential(st, id, ext) ==
  IF ext = "ok" /\ id \in DOMAIN st
  THEN [ok |-> TRUE, store |-> [i \in DOMAIN st \ {id} |-> st[i]]]
  ELSE [ok |-> FALSE, store |-> st]

\* ------------------------------------------------------------- handlers
\* entry_name without the separator between key and tag.
entry_name_joined(key, tag) ==
  IF tag = None THEN key ELSE key \o tag[1]

entry_name(key, tag) ==
  IF tag = None THEN key ELSE key \o <<":">> \o tag[1]

\* matched_keys naming an untagged query's candidates by the bare key.
matched_keys_bare(keys, key, tag) ==
  {<<e, IF tag # None THEN key \o <<":">> \o tag[1] ELSE e[1]>> :
     e \in {x \in keys : x[1] = key}}

\* The Vec built by filter_map in handle_password and handle_remove_command:
\* one ((k, t), name) per index Entry whose key is the queried key.  The
\* Vec's order is the HashSet's iteration order; the model keeps the pairs
\* as a set and takes the first element as a choice among them.
matched_keys(keys, key, tag) ==
  {<<e, IF tag # None THEN key \o <<":">> \o tag[1]
        ELSE IF e[2] # None THEN key \o <<":">> \o e[2][1]
        ELSE e[1]>> : e \in {x \in keys : x[1] = key}}

\* matched_keys.first(): any element, or NoMatch for the empty Vec.
NoMatch == <<<<<<>>, None>>, <<>>>>
Firsts(matched) == IF matched = {} THEN {NoMatch} ELSE matched

\* The strings joined into one println!, as a bag of names.
Names(pairs) ==
  [n \in {p[2] : p \in pairs} |-> Cardinality({p \in pairs : p[2] = n})]

Line(text, id, ids, pw) == [text |-> text, id |-> id, ids |-> ids, pw |-> pw]

Outcome(f, st, result, calls, saves, out) ==
  [file |-> f, store |-> st, result |-> result, calls |-> calls,
   saves |-> saves, out |-> out]

\* handle_set_command saving the index whether or not the insert changed it.
handle_set_command_always_save(f, st, key, password, quiet, tag, ext, sv) ==
  LET storage == load(f)
      name == entry_name(key, tag)
      wr == set_password(st, name, password, ext)
      call == <<Call("set", name, wr.ok)>>
      sav == save(f, storage.keys \cup {<<key, tag>>}, sv)
      msg == IF quiet THEN <<>> ELSE <<Line("set", name, <<>>, "")>>
  IN  IF ~storage.ok THEN Outcome(f, st, "err", <<>>, 0, <<>>)
      ELSE IF ~wr.ok THEN Outcome(f, st, "err", call, 0, <<>>)
      ELSE IF ~sav.ok THEN Outcome(sav.file, wr.store, "err", call, 1, <<>>)
      ELSE Outcome(sav.file, wr.store, "ok", call, 1, msg)

\* handle_set_command registering the Entry before the keyring accepted it.
handle_set_command_insert_first(f, st, key, password, quiet, tag, ext, sv) ==
  LET storage == load(f)
      name == entry_name(key, tag)
      wr == set_password(st, name, password, ext)
      call == <<Call("set", name, wr.ok)>>
      inserted == <<key, tag>> \notin storage.keys
      sav == save(f, storage.keys \cup {<<key, tag>>}, sv)
      msg == IF quiet THEN <<>> ELSE <<Line("set", name, <<>>, "")>>
  IN  IF ~storage.ok THEN Outcome(f, st, "err", <<>>, 0, <<>>)
      ELSE IF inserted /\ ~sav.ok THEN Outcome(sav.file, st, "err", <<>>, 1, <<>>)
      ELSE IF ~wr.ok
        THEN Outcome(IF inserted THEN sav.file ELSE f, st, "err", call,
                     IF inserted THEN 1 ELSE 0, <<>>)
      ELSE Outcome(IF inserted THEN sav.file ELSE f, wr.store, "ok", call,
                   IF inserted THEN 1 ELSE 0, msg)

handle_set_command(f, st, key, password, quiet, tag, ext, sv) ==
  LET storage == load(f)
      name == entry_name(key, tag)
      wr == set_password(st, name, password, ext)
      call == <<Call("set", name, wr.ok)>>
      inserted == <<key, tag>> \notin storage.keys
      sav == save(f, storage.keys \cup {<<key, tag>>}, sv)
      msg == IF quiet THEN <<>> ELSE <<Line("set", name, <<>>, "")>>
  IN  IF ~storage.ok THEN Outcome(f, st, "err", <<>>, 0, <<>>)
      ELSE IF ~wr.ok THEN Outcome(f, st, "err", call, 0, <<>>)
      ELSE IF ~inserted THEN Outcome(f, wr.store, "ok", call, 0, msg)
      ELSE IF ~sav.ok THEN Outcome(sav.file, wr.store, "err", call, 1, <<>>)
      ELSE Outcome(sav.file, wr.store, "ok", call, 1, msg)

\* handle_password without the ambiguity check: it reads the first match.
handle_password_first_match(f, st, key, quiet, copy, tag, first, ext, clip) ==
  LET storage == load(f)
      matched == matched_keys(storage.keys, key, tag)
      name == first[2]
      found == get_password(st, name, ext)
      call == <<Call("get", name, found)>>
      shown == IF quiet THEN <<>> ELSE <<Line("password", name, <<>>, st[name])>>
      copied == IF quiet THEN <<>> ELSE <<Line("copied", <<>>, <<>>, "")>>
  IN  IF ~storage.ok THEN Outcome(f, st, "err", <<>>, 0, <<>>)
      ELSE IF matched = {}
        THEN Outcome(f, st, "panic", <<>>, 0, <<Line("panic", key, <<>>, "")>>)
      ELSE IF ~found THEN Outcome(f, st, "err", call, 0, <<>>)
      ELSE IF ~copy THEN Outcome(f, st, "ok", call, 0, shown)
      ELSE IF clip # "ok" THEN Outcome(f, st, "err", call, 0, shown)
      ELSE Outcome(f, st, "ok", call, 0, shown \o copied)

\* handle_password dropping the secret from the store when the clipboard fails.
handle_password_take(f, st, key, quiet, copy, tag, first, ext, clip) ==
  LET storage == load(f)
      matched == matched_keys(storage.keys, key, tag)
      name == first[2]
      found == get_password(st, name, ext)
      call == <<Call("get", name, found)>>
      shown == IF quiet THEN <<>> ELSE <<Line("password", name, <<>>, st[name])>>
      copied == IF quiet THEN <<>> ELSE <<Line("copied", <<>>, <<>>, "")>>
  IN  IF ~storage.ok THEN Outcome(f, st, "err", <<>>, 0, <<>>)
      ELSE IF Cardinality(matched) > 1 /\ tag = None
        THEN Outcome(f, st, "ok", <<>>, 0, <<Line("multiple", key, Names(matched), "")>>)
      ELSE IF matched = {}
        THEN Outcome(f, st, "panic", <<>>, 0, <<Line("panic", key, <<>>, "")>>)
      ELSE IF ~found THEN Outcome(f, st, "err", call, 0, <<>>)
      ELSE IF ~copy THEN Outcome(f, st, "ok", call, 0, shown)
      ELSE IF clip # "ok"
        THEN Outcome(f, [i \in DOMAIN st \ {name} |-> st[i]], "err", call, 0, shown)
      ELSE Outcome(f, st, "ok", call, 0, shown \o copied)

handle_password(f, st, key, quiet, copy, tag, first, ext, clip) ==
  LET storage == load(f)
      matched == matched_keys(storage.keys, key, tag)
      name == first[2]
      found == get_password(st, name, ext)
      call == <<Call("get", name, found)>>
      shown == IF quiet THEN <<>> ELSE <<Line("password", name, <<>>, st[name])>>
      copied == IF quiet THEN <<>> ELSE <<Line("copied", <<>>, <<>>, "")>>
  IN  IF ~storage.ok THEN Outcome(f, st, "err", <<>>, 0, <<>>)
      ELSE IF Cardinality(matched) > 1 /\ tag = None
        THEN Outcome(f, st, "ok", <<>>, 0, <<Line("multiple", key, Names(matched), "")>>)
      ELSE IF matched = {}
        THEN Outcome(f, st, "panic", <<>>, 0, <<Line("panic", key, <<>>, "")>>)
      ELSE IF ~found THEN Outcome(f, st, "err", call, 0, <<>>)
      ELSE IF ~copy THEN Outcome(f, st, "ok", call, 0, shown)
      ELSE IF clip # "ok" THEN Outcome(f, st, "err", call, 0, shown)
      ELSE Outcome(f, st, "ok", call, 0, shown \o copied)

\* handle_remove_command rewriting the index file when nothing matched.
handle_remove_command_resave(f, st, key, quiet, tag, first, ext, sv) ==
  LET storage == load(f)
      matched == matched_keys(storage.keys, key, tag)
      storage_key == first[1]
      key_str == first[2]
      del == delete_credential(st, key_str, ext)
      call == <<Call("delete", key_str, del.ok)>>
      sav == save(f, storage.keys \ {storage_key}, sv)
      removed == IF quiet THEN <<>> ELSE <<Line("removed", key_str, <<>>, "")>>
      missing == IF quiet THEN <<>> ELSE <<Line("not_found", key, <<>>, "")>>
  IN  IF ~storage.ok THEN Outcome(f, st, "err", <<>>, 0, <<>>)
      ELSE IF Cardinality(matched) > 1 /\ tag = None
        THEN Outcome(f, st, "ok", <<>>, 0, <<Line("multiple", key, Names(matched), "")>>)
      ELSE IF matched = {} /\ ~sav.ok THEN Outcome(sav.file, st, "err", <<>>, 1, <<>>)
      ELSE IF matched = {} THEN Outcome(sav.file, st, "ok", <<>>, 1, missing)
      ELSE IF ~del.ok THEN Outcome(f, st, "err", call, 0, <<>>)
      ELSE IF ~sav.ok THEN Outcome(sav.file, del.store, "err", call, 1, <<>>)
      ELSE Outcome(sav.file, del.store, "ok", call, 1, removed)

\* handle_remove_command saving the index before the keyring deleted.
handle_remove_command_save_first(f, st, key, quiet, tag, first, ext, sv) ==
  LET storage == load(f)
      matched == matched_keys(storage.keys, key, tag)
      storage_key == first[1]
      key_str == first[2]
      sav == save(f, storage.keys \ {storage_key}, sv)
      del == delete_credential(st, key_str, ext)
      call == <<Call("delete", key_str, del.ok)>>
      removed == IF quiet THEN <<>> ELSE <<Line("removed", key_str, <<>>, "")>>
      missing == IF quiet THEN <<>> ELSE <<Line("not_found", key, <<>>, "")>>
  IN  IF ~storage.ok THEN Outcome(f, st, "err", <<>>, 0, <<>>)
      ELSE IF Cardinality(matched) > 1 /\ tag = None
        THEN Outcome(f, st, "ok", <<>>, 0, <<Line("multiple", key, Names(matched), "")>>)
      ELSE IF matched = {} THEN Outcome(f, st, "ok", <<>>, 0, missing)
      ELSE IF ~sav.ok THEN Outcome(sav.file, st, "err", <<>>, 1, <<>>)
      ELSE IF ~del.ok THEN Outcome(sav.file, st, "err", call, 1, <<>>)
      ELSE Outcome(sav.file, del.store, "ok", call, 1, removed)

handle_remove_command(f, st, key, quiet, tag, first, ext, sv) ==
  LET storage == load(f)
      matched == matched_keys(storage.keys, key, tag)
      storage_key == first[1]
      key_str == first[2]
      del == delete_credential(st, key_str, ext)
      call == <<Call("delete", key_str, del.ok)>>
      sav == save(f, storage.keys \ {storage_key}, sv)
      removed == IF quiet THEN <<>> ELSE <<Line("removed", key_str, <<>>, "")>>
      missing == IF quiet THEN <<>> ELSE <<Line("not_found", key, <<>>, "")>>
  IN  IF ~storage.ok THEN Outcome(f, st, "err", <<>>, 0, <<>>)
      ELSE IF Cardinality(matched) > 1 /\ tag = None
        THEN Outcome(f, st, "ok", <<>>, 0, <<Line("multiple", key, Names(matched), "")>>)
      ELSE IF matched = {} THEN Outcome(f, st, "ok", <<>>, 0, missing)
      ELSE IF ~del.ok THEN Outcome(f, st, "err", call, 0, <<>>)
      ELSE IF ~sav.ok THEN Outcome(sav.file, del.store, "err", call, 1, <<>>)
      ELSE Outcome(sav.file, del.store, "ok", call, 1, removed)

\* handle_list_command whose tag filter lets the untagged Entries through.
handle_list_command_untagged_too(f, st, quiet, tag, no_tag) ==
  LET storage == load(f)
      filtered_keys == IF no_tag THEN {e \in storage.keys : e[2] = None}
                       ELSE IF tag # None
                         THEN {e \in storage.keys : e[2] = tag \/ e[2] = None}
                       ELSE storage.keys
      keys == Names({<<e, IF e[2] # None THEN e[1] \o <<":">> \o e[2][1] ELSE e[1]>> :
                       e \in filtered_keys})
  IN  IF ~quiet /\ storage.keys # {}
      THEN Outcome(f, st, "ok", <<>>, 0, <<Line("list", <<>>, keys, "")>>)
      ELSE Outcome(f, st, "ok", <<>>, 0, <<>>)

\* load().unwrap_or_default(): an unreadable index lists as the empty one.
handle_list_command(f, st, quiet, tag, no_tag) ==
  LET storage == load(f)
      filtered_keys == IF no_tag THEN {e \in storage.keys : e[2] = None}
                       ELSE IF tag # None THEN {e \in storage.keys : e[2] = tag}
                       ELSE storage.keys
      keys == Names({<<e, IF e[2] # None THEN e[1] \o <<":">> \o e[2][1] ELSE e[1]>> :
                       e \in filtered_keys})
  IN  IF ~quiet /\ storage.keys # {}
      THEN Outcome(f, st, "ok", <<>>, 0, <<Line("list", <<>>, keys, "")>>)
      ELSE Outcome(f, st, "ok", <<>>, 0, <<>>)

\* ------------------------------------------------------------ invocations
\* What one invocation did, as main and the caller see it: the handler's
\* result, its requests to the keyring, its calls of save and what it
\* printed (main adds the error line unless quiet).  args holds the
\* arguments only some commands take: set's password, the --copy flag of a
\* read, list's --no-tag flag.
Args(password, copy, no_tag) ==
  [password |-> password, copy |-> copy, no_tag |-> no_tag]

Idle ==
  [op |-> "none", key |-> <<>>, tag |-> None, quiet |-> FALSE,
   args |-> Args("", FALSE, FALSE), result |-> "ok",
   calls |-> <<>>, saves |-> 0, out |-> <<>>]

main(op, key, tag, quiet, args, r) ==
  [op |-> op, key |-> key, tag |-> tag, quiet |-> quiet, args |-> args,
   result |-> r.result,
   calls |-> r.calls, saves |-> r.saves,
   out |-> IF ~quiet /\ r.result = "err"
           THEN r.out \o <<Line("error", <<>>, <<>>, "")>> ELSE r.out]

Init ==
  /\ file = NoFile
  /\ store = <<>>
  /\ last = Idle
  /\ procs = <<>>

\* One invocation of the program: a new process runs the handler to its end
\* on the index file and the keyring.  ext, sv and clip are what the keyring
\* backend, the file system and the clipboard answer to its calls, and
\* first is the match the HashSet yields first; r ranges over the outcomes
\* the handler has under them.
Invoke(op, key, tag, quiet, args, r) ==
  /\ file' = r.file
  /\ store' = r.store
  /\ last' = main(op, key, tag, quiet, args, r)
  /\ UNCHANGED procs

Set(exts, svs) ==
  /\ last.op = "none"
  /\ \E key \in Keys, tag \in OptTags, quiet \in BOOLEAN, password \in Passwords :
       \E r \in {handle_set_command(file, store, key, password, quiet, tag, ext, sv) :
                   ext \in exts, sv \in svs} :
         Invoke("set", key, tag, quiet, Args(password, FALSE, FALSE), r)

Get(exts, clips) ==
  /\ last.op = "none"
  /\ \E key \in Keys, tag \in OptTags, quiet \in BOOLEAN, copy \in BOOLEAN :
       \E r \in {handle_password(file, store, key, quiet, copy, tag, first, ext, clip) :
                   first \in Firsts(matched_keys(load(file).keys, key, tag)),
                   ext \in exts, clip \in clips} :
         Invoke("get", key, tag, quiet, Args("", copy, FALSE), r)

Remove(exts, svs) ==
  /\ last.op = "none"
  /\ \E key \in Keys, tag \in OptTags, quiet \in BOOLEAN :
       \E r \in {handle_remove_command(file, store, key, quiet, tag, first, ext, sv) :
                   first \in Firsts(matched_keys(load(file).keys, key, tag)),
                   ext \in exts, sv \in svs} :
         Invoke("rm", key, tag, quiet, Args("", FALSE, FALSE), r)

\* clap rejects --no-tag together with --tag.
List ==
  /\ last.op = "none"
  /\ \E quiet \in BOOLEAN, tag \in OptTags, no_tag \in BOOLEAN :
       /\ ~(no_tag /\ tag # None)
       /\ Invoke("list", <<>>, tag, quiet, Args("", FALSE, no_tag),
                 handle_list_command(file, store, quiet, tag, no_tag))

\* The process ends; the next invocation is a new process.
Exit ==
  /\ last.op # "none"
  /\ last' = Idle
  /\ UNCHANGED <<file, store, procs>>

Next ==
  \/ Set(ExtOutcomes, SaveOutcomes)
  \/ Get(ExtOutcomes, ExtOutcomes)
  \/ Remove(ExtOutcomes, SaveOutcomes)
  \/ List
  \/ Exit

Spec == Init /\ [][Next]_vars

\* Sequential invocations in which the keyring backend, the file system and
\* the clipboard never fail.
NextOk ==
  \/ Set({"ok"}, {"ok"})
  \/ Get({"ok"}, {"ok"})
  \/ Remove({"ok"}, {"ok"})
  \/ List
  \/ Exit

SpecOk == Init /\ [][NextOk]_vars

\* ------------------------------------------------- concurrent invocations
\* Two `pw set` processes started on the same index file and keyring.  Each
\* runs handle_set_command in its three blocking steps: load (line 75),
\* set_password (lines 76-81), insert and save (lines 82-84).  `keys` is the
\* process's own KeyStorage as loaded; `saved` numbers the saves in the
\* order in which they ran (0: this process has not saved).
Procs == {1, 2}
Entries == Keys \X OptTags

Secrets(base, pw) == [i \in {entry_name(e[1], e[2]) : e \in base} |-> pw]

RaceInit ==
  /\ \E base \in SUBSET Entries, pw \in Passwords :
       /\ file \in {JsonFile(base)} \cup (IF base = {} THEN {NoFile} ELSE {})
       /\ store = Secrets(base, pw)
  /\ last = Idle
  /\ procs \in [Procs -> [pc : {"load"}, key : Keys, tag : OptTags,
                          password : Passwords, keys : {{}}, saved : {0},
                          result : {"running"}]]

Saves == Cardinality({q \in Procs : procs[q].saved > 0})

RaceLoad(p) ==
  LET storage == load(file)
  IN  /\ procs[p].pc = "load"
      /\ procs' = [procs EXCEPT ![p].pc = IF storage.ok THEN "set" ELSE "done",
                                ![p].keys = storage.keys,
                                ![p].result = IF storage.ok THEN "running" ELSE "err"]
      /\ UNCHANGED <<file, store, last>>

RaceSetPassword(p, ext) ==
  LET wr == set_password(store, entry_name(procs[p].key, procs[p].tag),
                         procs[p].password, ext)
  IN  /\ procs[p].pc = "set"
      /\ store' = wr.store
      /\ procs' = [procs EXCEPT ![p].pc = IF wr.ok THEN "insert" ELSE "done",
                                ![p].result = IF wr.ok THEN "running" ELSE "err"]
      /\ UNCHANGED <<file, last>>

RaceInsertSave(p, sv) ==
  LET e == <<procs[p].key, procs[p].tag>>
      inserted == e \notin procs[p].keys
      sav == save(file, procs[p].keys \cup {e}, sv)
  IN  /\ procs[p].pc = "insert"
      /\ file' = IF inserted THEN sav.file ELSE file
      /\ procs' = [procs EXCEPT ![p].pc = "done",
                                ![p].saved = IF inserted /\ sav.ok THEN Saves + 1 ELSE 0,
                                ![p].result = IF inserted /\ ~sav.ok THEN "err" ELSE "ok"]
      /\ UNCHANGED <<store, last>>

NextRace ==
  \/ \E p \in Procs : RaceLoad(p)
  \/ \E p \in Procs, ext \in ExtOutcomes : RaceSetPassword(p, ext)
  \/ \E p \in Procs, sv \in SaveOutcomes : RaceInsertSave(p, sv)

SpecRace == RaceInit /\ [][NextRace]_vars
\* ------------------------------------------------------ the index store
\* KeyStorage on its own: one process that loads, inserts into and removes
\* from its in-memory set and saves it, in any order.  procs is that
\* process: its set `keys`, whether its last load succeeded (`ok`), the call
\* it made last (`did`) and the set its last successful save wrote (`saved`).
StorageInit ==
  /\ file = NoFile
  /\ store = <<>>
  /\ last = Idle
  /\ procs = [did |-> "default", ok |-> TRUE, keys |-> {}, saved |-> {}]

StorageLoad ==
  LET storage == load(file)
  IN  /\ procs' = [procs EXCEPT !.did = "load", !.ok = storage.ok,
                                !.keys = storage.keys]
      /\ UNCHANGED <<file, store, last>>

StorageInsert(e) ==
  /\ procs' = [procs EXCEPT !.did = "insert", !.keys = @ \cup {e}]
  /\ UNCHANGED <<file, store, last>>

StorageRemove(e) ==
  /\ procs' = [procs EXCEPT !.did = "remove", !.keys = @ \ {e}]
  /\ UNCHANGED <<file, store, last>>

StorageSave(sv) ==
  LET sav == save(file, procs.keys, sv)
  IN  /\ file' = sav.file
      /\ procs' = [procs EXCEPT !.did = IF sav.ok THEN "save" ELSE "save_err",
                                !.saved = IF sav.ok THEN procs.keys ELSE @]
      /\ UNCHANGED <<store, last>>

NextStorage ==
  \/ StorageLoad
  \/ \E e \in Entries : StorageInsert(e)
  \/ \E e \in Entries : StorageRemove(e)
  \/ \E sv \in SaveOutcomes : StorageSave(sv)

SpecStorage == StorageInit /\ [][NextStorage]_vars

\* ================================================================ claims
\* The persisted index, as the next invocation loads it.
Index == load(file).keys
IndexNext == load(file').keys
Matching(keys, key) == {e \in keys : e[1] = key}
Contacted(inv) == inv.calls # <<>>

\* C1: a successful remove(key, tag) with a tag removes from the persisted
\* index exactly the Entry (key, tag) and deletes from the store exactly the
\* identifier "key:tag"; every other Entry, also one sharing the key, stays.
C1_RemoveTaggedExact ==
  [][(last'.op = "rm" /\ last'.tag # None /\ last'.result = "ok" /\ Contacted(last'))
       => /\ IndexNext = Index \ {<<last'.key, last'.tag>>}
          /\ DOMAIN store' = DOMAIN store \ {entry_name(last'.key, last'.tag)}]_vars

\* C2: when no store or file operation fails, every Entry of the persisted
\* index has a secret in the store under the identifier derived from it.
C2_IndexStoreConsistent ==
  \A e \in Index : entry_name(e[1], e[2]) \in DOMAIN store

\* C3: when the store's set operation fails during set, the invocation
\* returns an error, the index file is not written and is what it was.
C3_SetFailureKeepsIndex ==
  [][(last'.op = "set" /\ Contacted(last') /\ ~last'.calls[1].ok)
       => /\ last'.result = "err"
          /\ last'.saves = 0
          /\ file' = file]_vars

C3_Witness ==
  /\ last.op = "set"
  /\ Contacted(last)
  /\ ~last.calls[1].ok
  /\ <<last.key, last.tag>> \notin Index
  /\ Index # {}

\* C4: when the store's delete operation fails during remove (not-found
\* included), the invocation returns an error, the index file is not
\* written and is what it was.
C4_RemoveFailureKeepsIndex ==
  [][(last'.op = "rm" /\ Contacted(last') /\ ~last'.calls[1].ok)
       => /\ last'.result = "err"
          /\ last'.saves = 0
          /\ file' = file]_vars

C4_Witness ==
  /\ last.op = "rm"
  /\ Contacted(last)
  /\ last.calls[1].op = "delete"
  /\ ~last.calls[1].ok
  /\ Matching(Index, last.key) # {}
\* C5: get and remove without a tag, on an index holding more than one
\* Entry with the queried key, report the identifiers of all those Entries,
\* return success, make no request to the store and leave the index file
\* alone; no candidate is picked.
Identifiers(entries) == [n \in {entry_name(e[1], e[2]) : e \in entries} |-> 1]

C5_AmbiguousReportsAll ==
  [][(last'.op \in {"get", "rm"} /\ last'.tag = None
        /\ Cardinality(Matching(Index, last'.key)) > 1)
       => /\ last'.result = "ok"
          /\ last'.out = <<Line("multiple", last'.key,
                                Identifiers(Matching(Index, last'.key)), "")>>
          /\ ~Contacted(last')
          /\ last'.saves = 0
          /\ file' = file
          /\ store' = store]_vars

C5_Witness ==
  /\ last.op = "get"
  /\ last.tag = None
  /\ Cardinality(Matching(Index, last.key)) > 1
  /\ Len(last.out) = 1
  /\ last.out[1].text = "multiple"
  /\ DOMAIN last.out[1].ids = {last.key, last.key \o <<":">> \o AllTags[1]}

\* C6: get and remove with a tag target exactly (key, tag) whatever the
\* index holds (no Entry for key, one, several): no ambiguity outcome, the
\* store is asked for "key:tag", and the invocation succeeds exactly when
\* the store does; a successful remove unregisters (key, tag).
C6_TaggedIgnoresIndex ==
  [][(last'.op \in {"get", "rm"} /\ last'.tag # None /\ load(file).ok)
       => /\ Contacted(last')
          /\ last'.calls[1].id = entry_name(last'.key, last'.tag)
          /\ last'.result # "panic"
          /\ ~last'.calls[1].ok => last'.result = "err"
          /\ (last'.op = "rm" /\ last'.result = "ok")
               => IndexNext = Index \ {<<last'.key, last'.tag>>}]_vars

\* C7: get(key) without a tag, on an index with no Entry for key, ends in an
\* error returned by the invocation after the store lookup, never in a
\* crash; index file and store are unchanged.
C7_GetUnknownKeyIsError ==
  [][(last'.op = "get" /\ last'.tag = None /\ load(file).ok
        /\ Matching(Index, last'.key) = {})
       => /\ last'.result = "err"
          /\ file' = file
          /\ store' = store]_vars

\* C8: remove(key) without a tag, on an index with no Entry for key, is a
\* successful no-op: the outcome is "not found" (printed unless quiet), no
\* request goes to the store and the index file is neither changed nor
\* rewritten.
C8_RemoveUnknownKeyIsNoOp ==
  [][(last'.op = "rm" /\ last'.tag = None /\ load(file).ok
        /\ Matching(Index, last'.key) = {})
       => /\ last'.result = "ok"
          /\ last'.out = IF last'.quiet THEN <<>>
                         ELSE <<Line("not_found", last'.key, <<>>, "")>>
          /\ ~Contacted(last')
          /\ last'.saves = 0
          /\ file' = file
          /\ store' = store]_vars

C8_Witness ==
  /\ last.op = "rm"
  /\ last.tag = None
  /\ Matching(Index, last.key) = {}
  /\ Index # {}
  /\ last.out = <<Line("not_found", last.key, <<>>, "")>>
  /\ last.saves = 0

\* C9: get and remove without a tag, on an index holding exactly one Entry
\* with the queried key, target that Entry whatever its tag: the store is
\* asked for the identifier derived from it, and a successful remove takes
\* exactly that Entry out of the index and that secret out of the store.
C9_SingleCandidateIsTarget ==
  [][(last'.op \in {"get", "rm"} /\ last'.tag = None
        /\ Cardinality(Matching(Index, last'.key)) = 1)
       => \E e \in Matching(Index, last'.key) :
            /\ Len(last'.calls) = 1
            /\ last'.calls[1].op = (IF last'.op = "get" THEN "get" ELSE "delete")
            /\ last'.calls[1].id = entry_name(e[1], e[2])
            /\ (last'.op = "rm" /\ last'.result = "ok")
                 => /\ IndexNext = Index \ {e}
                    /\ DOMAIN store' = DOMAIN store \ {entry_name(e[1], e[2])}]_vars

\* a successful untagged remove whose only candidate was the tagged Entry,
\* with an Entry of another key left in the index
C9_Witness ==
  /\ last.op = "rm"
  /\ last.tag = None
  /\ last.result = "ok"
  /\ Len(last.calls) = 1
  /\ last.calls[1].id = last.key \o <<":">> \o AllTags[1]
  /\ Matching(Index, last.key) = {}
  /\ Index # {}

\* C10: two set invocations of distinct Entries that both loaded the same
\* index before either saved, whose store writes and saves all succeeded:
\* the index file holds what they loaded plus only the Entry of the process
\* that saved second; the first saver's Entry is missing from the index
\* while its secret is in the store.
C10_LastSaveWins ==
  \A p \in Procs, q \in Procs :
    (/\ procs[p].result = "ok" /\ procs[q].result = "ok"
     /\ procs[p].saved = 1 /\ procs[q].saved = 2
     /\ procs[p].keys = procs[q].keys
     /\ <<procs[p].key, procs[p].tag>> # <<procs[q].key, procs[q].tag>>)
    => /\ Index = procs[q].keys \cup {<<procs[q].key, procs[q].tag>>}
       /\ <<procs[p].key, procs[p].tag>> \notin Index
       /\ entry_name(procs[p].key, procs[p].tag) \in DOMAIN store
       /\ entry_name(procs[q].key, procs[q].tag) \in DOMAIN store

C10_Witness ==
  /\ procs[1].result = "ok" /\ procs[2].result = "ok"
  /\ procs[1].saved = 1 /\ procs[2].saved = 2
  /\ procs[1].keys = procs[2].keys
  /\ procs[1].keys # {}
  /\ <<procs[1].key, procs[1].tag>> \notin Index
  /\ <<procs[2].key, procs[2].tag>> \in Index
  /\ entry_name(procs[1].key, procs[1].tag) \in DOMAIN store
\* C11: after a successful set(key, password, tag) the persisted index is
\* the previous one plus (key, tag), the store maps the identifier derived
\* from (key, tag) to password, and nothing else in index or store changed.
C11_SetAddsEntryAndSecret ==
  [][(last'.op = "set" /\ last'.result = "ok")
       => /\ IndexNext = Index \cup {<<last'.key, last'.tag>>}
          /\ DOMAIN store' = DOMAIN store \cup {entry_name(last'.key, last'.tag)}
          /\ \A i \in DOMAIN store' :
               store'[i] = IF i = entry_name(last'.key, last'.tag)
                           THEN last'.args.password ELSE store[i]]_vars

\* a set that overwrote the secret of a registered Entry with another
\* password, other Entries and secrets being present
C11_Witness ==
  /\ last.op = "set"
  /\ last.result = "ok"
  /\ last.saves = 0
  /\ Cardinality(Index) > 1
  /\ Cardinality(DOMAIN store) > 1
  /\ store[entry_name(last.key, last.tag)] = last.args.password
  /\ \E i \in DOMAIN store : store[i] # last.args.password

\* C12: a set for an Entry that is already in the index leaves the index
\* file as it is and does not call save; the first set for an Entry adds it
\* and calls save once.
C12_RegisterIdempotent ==
  [][(last'.op = "set" /\ last'.result = "ok" /\ load(file).ok)
       => IF <<last'.key, last'.tag>> \in Index
          THEN last'.saves = 0 /\ file' = file
          ELSE /\ last'.saves = 1
               /\ IndexNext = Index \cup {<<last'.key, last'.tag>>}
               /\ file'.kind = "json"]_vars

C12_Witness ==
  /\ last.op = "set"
  /\ last.result = "ok"
  /\ last.saves = 0
  /\ <<last.key, last.tag>> \in Index
\* C13: in quiet mode no invocation of set, get, remove or list prints
\* anything, whatever the outcome its handler returns (success, ambiguous
\* query, not found, error).
C13_QuietPrintsNothing ==
  (last.op # "none" /\ last.quiet /\ last.result \in {"ok", "err"})
    => last.out = <<>>

\* C14: when the index file exists and does not load, every command that
\* consults the index (set, get, remove, list) ends with that error, makes
\* no request to the store and does not write the file.
C14_UnreadableIndexIsFatal ==
  [][(last'.op \in {"set", "get", "rm", "list"} /\ file.kind # "absent"
        /\ ~load(file).ok)
       => /\ last'.result = "err"
          /\ ~Contacted(last')
          /\ last'.saves = 0
          /\ file' = file
          /\ store' = store]_vars

\* C15: a save that fails after it started leaves in the file either the
\* complete previous index or the complete new one, never partial content:
\* the next load succeeds and returns one of the two.
C15_NoPartialIndex ==
  [][(last'.op \in {"set", "rm"} /\ last'.saves = 1 /\ last'.result = "err")
       => /\ load(file').ok
          /\ \/ IndexNext = Index
             \/ IndexNext = Index \cup {<<last'.key, last'.tag>>}
             \/ \E e \in Index : IndexNext = Index \ {e}]_vars
\* C16: the identifier under which an Entry's secret is kept is "key:tag"
\* when the tag is present and the key otherwise; two distinct (key, tag)
\* pairs get the same identifier only in the collision of (k ++ ":" ++ t,
\* None) with (k, Some(t)), which exists for ("a:b", None) and
\* ("a", Some("b")): then two index Entries address one secret.
Collide(e1, e2) ==
  /\ e1[2] = None
  /\ e2[2] # None
  /\ e1[1] = e2[1] \o <<":">> \o e2[2][1]

C16_IdentifierFormat ==
  [][(last'.op = "set" /\ Contacted(last'))
       => /\ last'.calls[1].id = IF last'.tag = None THEN last'.key
                                 ELSE last'.key \o <<":">> \o last'.tag[1]
          /\ \A e1 \in Entries, e2 \in Entries :
               (e1 # e2 /\ entry_name(e1[1], e1[2]) = entry_name(e2[1], e2[2]))
                 => Collide(e1, e2) \/ Collide(e2, e1)
          /\ entry_name(<<"a", ":", "b">>, None) = entry_name(<<"a">>, Some(<<"b">>))]_vars

\* both colliding Entries are registered and the store holds one secret for
\* the two, written by the set of the second
C16_Witness ==
  /\ last.op = "set"
  /\ last.result = "ok"
  /\ last.saves = 1
  /\ {<<<<"a", ":", "b">>, None>>, <<<<"a">>, Some(<<"b">>)>>} \subseteq Index
  /\ DOMAIN store = {<<"a", ":", "b">>}
  /\ last.calls[1].id = <<"a", ":", "b">>
\* C17: list prints exactly the Entries its filter selects, each once and
\* as its identifier: with a tag, those carrying that tag; with --no-tag,
\* the untagged ones; with neither, all.  (Quiet prints nothing; for an
\* empty index nothing is printed, which lists no Entry.)
Selected(keys, tag, no_tag) ==
  IF no_tag THEN {e \in keys : e[2] = None}
  ELSE IF tag # None THEN {e \in keys : e[2] # None /\ e[2] = tag}
  ELSE keys

Rendered(entries) ==
  [n \in {entry_name(e[1], e[2]) : e \in entries} |->
     Cardinality({e \in entries : entry_name(e[1], e[2]) = n})]

Listed(inv) == IF inv.out = <<>> THEN <<>> ELSE inv.out[1].ids

C18_SaveLoadRoundTrip ==
  [][/\ procs'.did = "save"
          => load(file') = [ok |-> TRUE, keys |-> procs.keys]
     /\ (procs'.did = "load" /\ file.kind = "json")
          => procs'.ok /\ procs'.keys = procs.saved
     /\ (procs'.did = "load" /\ file.kind = "absent")
          => procs'.ok /\ procs'.keys = {}]_vars

\* a load that got back a saved set of tagged and untagged Entries which
\* differs from what the process held before
C18_Witness ==
  /\ procs.did = "load"
  /\ procs.ok
  /\ file.kind = "json"
  /\ procs.keys = procs.saved
  /\ \E e \in procs.keys : e[2] = None
  /\ \E e \in procs.keys : e[2] # None
  /\ Cardinality(procs.keys) < Cardinality(Entries)
\* C19: get and list are read-only under every outcome: neither changes
\* the index file or the store or calls save, and list makes no request to
\* the store.  A get that fails after its store lookup succeeded (the
\* clipboard failed) returns the error with the secret already shown and
\* nothing undone.
C19_GetAndListReadOnly ==
  [][(last'.op \in {"get", "list"})
       => /\ file' = file
          /\ store' = store
          /\ last'.saves = 0
          /\ last'.op = "list" => ~Contacted(last')
          /\ (last'.op = "get" /\ Contacted(last') /\ last'.calls[1].ok
                /\ last'.result = "err")
               => /\ last'.args.copy
                  /\ ~last'.quiet
                       => last'.out = <<Line("password", last'.calls[1].id, <<>>,
                                             store[last'.calls[1].id]),
                                        Line("error", <<>>, <<>>, "")>>]_vars

\* a get with --copy whose lookup succeeded and whose clipboard write failed
C19_Witness ==
  /\ last.op = "get"
  /\ last.args.copy
  /\ Contacted(last)
  /\ last.calls[1].ok
  /\ last.result = "err"
  /\ Len(last.out) = 2
  /\ last.out[1].pw = store[last.calls[1].id]

\* C20: set and remove call save at most once and only after their store
\* operation succeeded; a save that fails after the store operation leaves
\* the store changed and the index file as it was, and the invocation
\* returns an error.
C20_SaveAfterStore ==
  [][(last'.op \in {"set", "rm"})
       => /\ last'.saves <= 1
          /\ last'.saves = 1 => Contacted(last') /\ last'.calls[1].ok
          /\ (last'.saves = 1 /\ last'.result = "err")
               => /\ file' = file
                  /\ last'.op = "set"
                       => /\ last'.calls[1].id \in DOMAIN store'
                          /\ store'[last'.calls[1].id] = last'.args.password
                  /\ last'.op = "rm"
                       => /\ last'.calls[1].id \in DOMAIN store
                          /\ last'.calls[1].id \notin DOMAIN store']_vars
====
